---------------------------- MODULE Spec2Model ----------------------------
(***************************************************************************)
(* A model of the SOW manager's billing computation: the working-day       *)
(* counters, the rate resolver, the billing tab (periods, per-period       *)
(* overrides, preview and per-period totals) and the anomaly-detection     *)
(* flow.                                                                   *)
(*                                                                         *)
(* Dates are local calendar days, counted from day 0 = 2023-01-01 (a       *)
(* Sunday).  Amounts are exact rationals [n, d] with d > 0: the code's     *)
(* IEEE doubles are modelled without rounding.                             *)
(***************************************************************************)
EXTENDS Integers, Sequences, FiniteSets, TLC

VARIABLES days, rates, tab, flow, card, generated, analytics, form, home, cloud

vars == <<days, rates, tab, flow, card, generated, analytics, form, home, cloud>>

(***************************************************************************)
(* Bounds of the model.                                                    *)
(***************************************************************************)
MaxDay == 13
MaxRates == 2
MaxHolidays == 2
MaxLeave == 2
MaxResources == 2

(***************************************************************************)
(* Exact arithmetic on amounts.                                            *)
(***************************************************************************)
Rat(n, d) == [n |-> n, d |-> d]

RInt(n) == Rat(n, 1)

RMul(a, b) == Rat(a.n * b.n, a.d * b.d)

\* a / b for b > 0
RDiv(a, b) == Rat(a.n * b.d, a.d * b.n)

RLess(a, b) == a.n * b.d < b.n * a.d

REq(a, b) == a.n * b.d = b.n * a.d

RMax(a, b) == IF RLess(a, b) THEN b ELSE a

Max(a, b) == IF a >= b THEN a ELSE b

Min(a, b) == IF a <= b THEN a ELSE b

Abs(a) == IF a < 0 THEN 0 - a ELSE a

(***************************************************************************)
(* The calendar: JavaScript's Date restricted to local midnights.          *)
(***************************************************************************)
IsLeapYear(y) == (y % 4 = 0 /\ y % 100 # 0) \/ y % 400 = 0

DaysInYear(y) == IF IsLeapYear(y) THEN 366 ELSE 365

\* m is 0-indexed, as in Date
DaysInMonth(y, m) ==
    IF m = 1 THEN (IF IsLeapYear(y) THEN 29 ELSE 28)
    ELSE IF m \in {3, 5, 8, 10} THEN 30 ELSE 31

RECURSIVE DaysBeforeYear(_)
DaysBeforeYear(y) ==
    IF y = 2023 THEN 0
    ELSE IF y > 2023 THEN DaysBeforeYear(y - 1) + DaysInYear(y - 1)
    ELSE DaysBeforeYear(y + 1) - DaysInYear(y)

RECURSIVE DaysBeforeMonth(_, _)
DaysBeforeMonth(y, m) ==
    IF m = 0 THEN 0 ELSE DaysBeforeMonth(y, m - 1) + DaysInMonth(y, m - 1)

\* new Date(year, month, day): a month outside 0..11 rolls into the
\* neighbouring year
NewDate(y, m, d) ==
    LET yy == IF m < 0 THEN y - 1 ELSE IF m > 11 THEN y + 1 ELSE y
        mm == IF m < 0 THEN m + 12 ELSE IF m > 11 THEN m - 12 ELSE m
    IN  DaysBeforeYear(yy) + DaysBeforeMonth(yy, mm) + (d - 1)

RECURSIVE YearFrom(_, _)
YearFrom(y, date) ==
    IF date < DaysBeforeYear(y) THEN YearFrom(y - 1, date)
    ELSE IF date >= DaysBeforeYear(y + 1) THEN YearFrom(y + 1, date)
    ELSE y

\* Date.getFullYear
getFullYear(date) == YearFrom(2023, date)

RECURSIVE MonthFrom(_, _, _)
MonthFrom(y, m, date) ==
    IF date >= NewDate(y, m, 1) + DaysInMonth(y, m) THEN MonthFrom(y, m + 1, date)
    ELSE m

\* Date.getMonth (0-indexed)
getMonth(date) == MonthFrom(getFullYear(date), 0, date)

\* Date.getDay: 0 = Sunday ... 6 = Saturday
getDay(date) == date % 7

(***************************************************************************)
(* getWorkingDays (billing tab) and getWorkingDaysForPeriod (anomaly       *)
(* flow): the loops of the source, one iteration per recursive call.       *)
(***************************************************************************)
RECURSIVE WorkingDaysLoop(_, _, _)
WorkingDaysLoop(currentDate, endDate, workingDays) ==
    IF currentDate <= endDate
    THEN WorkingDaysLoop(currentDate + 1, endDate,
                         IF getDay(currentDate) # 0 /\ getDay(currentDate) # 6
                         THEN workingDays + 1 ELSE workingDays)
    ELSE workingDays

\* a plausible slip: the loop stops one day early
RECURSIVE WorkingDaysLoopExclusive(_, _, _)
WorkingDaysLoopExclusive(currentDate, endDate, workingDays) ==
    IF currentDate < endDate
    THEN WorkingDaysLoopExclusive(currentDate + 1, endDate,
                         IF getDay(currentDate) # 0 /\ getDay(currentDate) # 6
                         THEN workingDays + 1 ELSE workingDays)
    ELSE workingDays

getWorkingDaysExclusive(startDate, endDate) ==
    IF endDate < startDate THEN 0
    ELSE WorkingDaysLoopExclusive(startDate, endDate, 0)

getWorkingDays(startDate, endDate) ==
    IF endDate < startDate THEN 0
    ELSE WorkingDaysLoop(startDate, endDate, 0)

\* no guard: an inverted range never enters the loop
getWorkingDaysForPeriod(startDate, endDate) ==
    WorkingDaysLoop(startDate, endDate, 0)

(***************************************************************************)
(* getRateForYear: sort a copy by year descending (Array.prototype.sort is *)
(* stable), take the first entry with year <= the target, "|| 0".          *)
(***************************************************************************)
RECURSIVE InsertByYearDesc(_, _)
InsertByYearDesc(sorted, rate) ==
    IF sorted = <<>> THEN <<rate>>
    ELSE IF Head(sorted).year >= rate.year
         THEN <<Head(sorted)>> \o InsertByYearDesc(Tail(sorted), rate)
         ELSE <<rate>> \o sorted

RECURSIVE SortByYearDesc(_, _)
SortByYearDesc(sorted, rest) ==
    IF rest = <<>> THEN sorted
    ELSE SortByYearDesc(InsertByYearDesc(sorted, Head(rest)), Tail(rest))

RECURSIVE InsertByYearAsc(_, _)
InsertByYearAsc(sorted, rate) ==
    IF sorted = <<>> THEN <<rate>>
    ELSE IF Head(sorted).year <= rate.year
         THEN <<Head(sorted)>> \o InsertByYearAsc(Tail(sorted), rate)
         ELSE <<rate>> \o sorted

RECURSIVE SortByYearAsc(_, _)
SortByYearAsc(sorted, rest) ==
    IF rest = <<>> THEN sorted
    ELSE SortByYearAsc(InsertByYearAsc(sorted, Head(rest)), Tail(rest))

\* a plausible slip: (a, b) => a.year - b.year
sortedRatesAscending(billingRates) == SortByYearAsc(<<>>, billingRates)

sortedRates(billingRates) == SortByYearDesc(<<>>, billingRates)

\* Array.prototype.find: the first entry with year <= the target, by index
\* (0: undefined)
RECURSIVE FindApplicable(_, _, _)
FindApplicable(sorted, year, i) ==
    IF i > Len(sorted) THEN 0
    ELSE IF sorted[i].year <= year THEN i
    ELSE FindApplicable(sorted, year, i + 1)

\* a plausible slip: the target year compared one year off
RECURSIVE FindApplicableOffByOne(_, _, _)
FindApplicableOffByOne(sorted, year, i) ==
    IF i > Len(sorted) THEN 0
    ELSE IF sorted[i].year <= year + 1 THEN i
    ELSE FindApplicableOffByOne(sorted, year, i + 1)

getRateForYearOffByOne(billingRates, year) ==
    IF Len(billingRates) = 0 THEN 0
    ELSE LET sorted == sortedRates(billingRates)
             i == FindApplicableOffByOne(sorted, year, 1)
         IN  IF i = 0 THEN 0 ELSE sorted[i].ratePerResource

getRateForYear(billingRates, year) ==
    IF Len(billingRates) = 0 THEN 0
    ELSE LET sorted == sortedRates(billingRates)
             i == FindApplicable(sorted, year, 1)
         IN  IF i = 0 THEN 0
             ELSE IF sorted[i].ratePerResource = 0 THEN 0
             ELSE sorted[i].ratePerResource

(***************************************************************************)
(* Idle values of the components a specification does not exercise.        *)
(***************************************************************************)
IdleDays == [pc |-> "idle"]

IdleRates == [pc |-> "idle"]

IdleTab == [pc |-> "idle"]

IdleFlow == [pc |-> "idle"]

IdleCard == [pc |-> "idle"]

IdleGenerated == [pc |-> "idle"]

IdleAnalytics == [pc |-> "idle"]

IdleForm == [pc |-> "idle"]

IdleHome == [pc |-> "idle"]

IdleCloud == [pc |-> "idle"]

\* the components added after the billing ones, taken together
others == <<analytics, form, home, cloud>>

OthersIdle ==
    /\ analytics = IdleAnalytics
    /\ form = IdleForm
    /\ home = IdleHome
    /\ cloud = IdleCloud

(***************************************************************************)
(* SpecDays: the two working-day counters applied to every pair of days.   *)
(***************************************************************************)
DayRange == 0 .. MaxDay

InitDays ==
    /\ days \in [pc : {"ready"}, startDate : DayRange, endDate : DayRange,
                 workingDays : {-1}, workingDaysForPeriod : {-1}]
    /\ rates = IdleRates
    /\ tab = IdleTab
    /\ flow = IdleFlow
    /\ card = IdleCard
    /\ generated = IdleGenerated
    /\ OthersIdle

CallGetWorkingDays ==
    /\ days.pc = "ready"
    /\ days.workingDays = -1
    /\ days' = [days EXCEPT !.workingDays = getWorkingDays(days.startDate, days.endDate)]
    /\ UNCHANGED <<rates, tab, flow, card, generated, others>>

CallGetWorkingDaysForPeriod ==
    /\ days.pc = "ready"
    /\ days.workingDaysForPeriod = -1
    /\ days' = [days EXCEPT !.workingDaysForPeriod =
                                getWorkingDaysForPeriod(days.startDate, days.endDate)]
    /\ UNCHANGED <<rates, tab, flow, card, generated, others>>

NextDays == CallGetWorkingDays \/ CallGetWorkingDaysForPeriod

SpecDays == InitDays /\ [][NextDays]_vars

\* the weekdays of [startDate, endDate], counted as a set
Weekdays(startDate, endDate) ==
    {d \in startDate .. endDate : getDay(d) \in 1 .. 5}

\* C1: both counters return the number of Monday-to-Friday days of the
\* inclusive range: 0 for an inverted range, 5 for any 7 consecutive days.
C1_WorkingDaysCount ==
    /\ days.workingDays # -1 =>
          /\ days.workingDays = Cardinality(Weekdays(days.startDate, days.endDate))
          /\ days.endDate < days.startDate => days.workingDays = 0
          /\ days.endDate = days.startDate + 6 => days.workingDays = 5
    /\ days.workingDaysForPeriod # -1 =>
          /\ days.workingDaysForPeriod =
                 Cardinality(Weekdays(days.startDate, days.endDate))
          /\ days.endDate < days.startDate => days.workingDaysForPeriod = 0
          /\ days.endDate = days.startDate + 6 => days.workingDaysForPeriod = 5

\* a full week starting mid-week has been counted by both counters
C1_Witness ==
    /\ days.pc = "ready"
    /\ days.endDate = days.startDate + 6
    /\ getDay(days.startDate) = 3
    /\ days.workingDays = 5
    /\ days.workingDaysForPeriod = 5

(***************************************************************************)
(* SpecRates: the rate resolver applied to every bounded rate history, and *)
(* the form's "Add Rate" (an entry appended to the history, with the year  *)
(* and rate the user gives it).                                            *)
(***************************************************************************)
YearRange == 2023 .. 2025

RateValues == {0, 100, 200}

BillingRate == [year : YearRange, ratePerResource : RateValues]

RECURSIVE SeqsUpTo(_, _)
SeqsUpTo(S, n) ==
    IF n = 0 THEN {<<>>}
    ELSE LET shorter == SeqsUpTo(S, n - 1)
         IN  shorter \cup {Append(s, x) : s \in {t \in shorter : Len(t) = n - 1}, x \in S}

InitRates ==
    /\ rates \in [pc : {"ready"}, billingRates : SeqsUpTo(BillingRate, MaxRates),
                  year : YearRange, result : {-1}, added : {FALSE}]
    /\ days = IdleDays
    /\ tab = IdleTab
    /\ flow = IdleFlow
    /\ card = IdleCard
    /\ generated = IdleGenerated
    /\ OthersIdle

CallGetRateForYear ==
    /\ rates.pc = "ready"
    /\ rates.result = -1
    /\ rates' = [rates EXCEPT !.result = getRateForYear(rates.billingRates, rates.year)]
    /\ UNCHANGED <<days, tab, flow, card, generated, others>>

AddRate(entry) ==
    /\ rates.pc = "ready"
    /\ Len(rates.billingRates) <= MaxRates
    /\ rates' = [rates EXCEPT !.billingRates = Append(rates.billingRates, entry),
                              !.result = -1,
                              !.added = TRUE]
    /\ UNCHANGED <<days, tab, flow, card, generated, others>>

NextRates ==
    \/ CallGetRateForYear
    \/ \E entry \in BillingRate : AddRate(entry)

SpecRates == InitRates /\ [][NextRates]_vars

\* the entries of a history that are applicable to a target year
Applicable(billingRates, year) ==
    {i \in DOMAIN billingRates : billingRates[i].year <= year}

\* C2: the resolved rate is the rate of an entry with the largest year among
\* the entries with year <= the target year (never of a later entry), and 0
\* when the history is empty or no entry qualifies.
C2_MostRecentRateAtOrBefore ==
    rates.result # -1 =>
        LET applicable == Applicable(rates.billingRates, rates.year)
        IN  IF applicable = {} THEN rates.result = 0
            ELSE \E i \in applicable :
                    /\ \A j \in applicable :
                           rates.billingRates[j].year <= rates.billingRates[i].year
                    /\ rates.result = rates.billingRates[i].ratePerResource

\* a history with an earlier, a current and a later entry has been resolved
\* to the current entry, against a different earlier and later rate
C2_Witness ==
    /\ rates.result = 200
    /\ rates.year = 2024
    /\ \E i, j, k \in DOMAIN rates.billingRates :
          /\ rates.billingRates[i] = [year |-> 2023, ratePerResource |-> 100]
          /\ rates.billingRates[j] = [year |-> 2024, ratePerResource |-> 200]
          /\ rates.billingRates[k] = [year |-> 2025, ratePerResource |-> 100]

\* the history before the last Add Rate, and the entry it added
RatesBeforeAdd == SubSeq(rates.billingRates, 1, Len(rates.billingRates) - 1)

AddedRate == rates.billingRates[Len(rates.billingRates)]

\* the added entry's year lies strictly between two existing entry years
AddedBetween ==
    /\ rates.added
    /\ \E i, j \in DOMAIN RatesBeforeAdd :
          /\ RatesBeforeAdd[i].year < AddedRate.year
          /\ AddedRate.year < RatesBeforeAdd[j].year

\* the smallest existing year above the added entry's year
NextYearAbove ==
    CHOOSE y \in {RatesBeforeAdd[i].year : i \in DOMAIN RatesBeforeAdd} :
        /\ y > AddedRate.year
        /\ \A i \in DOMAIN RatesBeforeAdd :
               RatesBeforeAdd[i].year > AddedRate.year => y <= RatesBeforeAdd[i].year

\* C3 as stated: adding an entry between two existing years never decreases
\* the resolved rate for a target year >= its year and changes nothing below.
C3_Original_NeverDecreases ==
    AddedBetween =>
        \A target \in YearRange :
            IF target >= AddedRate.year
            THEN getRateForYear(rates.billingRates, target)
                     >= getRateForYear(RatesBeforeAdd, target)
            ELSE getRateForYear(rates.billingRates, target)
                     = getRateForYear(RatesBeforeAdd, target)

\* C3 amended: adding an entry between two existing years changes nothing for
\* a target year below its year or from the next existing year on; for the
\* target years in between the resolved rate is unchanged or becomes the new
\* entry's rate (which may be lower than the rate resolved before).
C3_AddedRateOnlyAffectsItsOwnYears ==
    AddedBetween =>
        \A target \in YearRange :
            LET before == getRateForYear(RatesBeforeAdd, target)
                after == getRateForYear(rates.billingRates, target)
            IN  IF target < AddedRate.year \/ target >= NextYearAbove
                THEN after = before
                ELSE after \in {before, AddedRate.ratePerResource}

\* an entry added between two years has lowered the rate of its own year
C3_Witness ==
    /\ AddedBetween
    /\ AddedRate.year = 2024
    /\ getRateForYear(RatesBeforeAdd, 2024) = 200
    /\ getRateForYear(rates.billingRates, 2024) = 100
    /\ getRateForYear(rates.billingRates, 2025) = getRateForYear(RatesBeforeAdd, 2025)

(***************************************************************************)
(* The billing tab: getBillingPeriods, the per-period override handlers    *)
(* and the figures the tab renders from its state.                         *)
(***************************************************************************)
\* a plausible slip: a single leave entry whatever the number of resources
NoLeavesSingleEntry(n) == <<[resourceName |-> 1, leaveDays |-> 0]>>

\* Array.from({length: n}, (_, i) => ({resourceName: `Resource ${i + 1}`, leaveDays: 0}))
NoLeaves(n) == [i \in 1 .. n |-> [resourceName |-> i, leaveDays |-> 0]]

\* a plausible slip: every month of the loop is kept, the overlap test left out
RECURSIVE BillingPeriodsLoopUnfiltered(_, _, _, _)
BillingPeriodsLoopUnfiltered(sow, year, month, periods) ==
    LET period == [monthId |-> <<year, month + 1>>,
                   billingPeriodStartDate |-> NewDate(year, month - 1, 26),
                   billingPeriodEndDate |-> NewDate(year, month, 25),
                   regionalHolidays |-> 0,
                   actualNumberOfResources |-> sow.numberOfResources,
                   resourceLeaves |-> NoLeaves(sow.numberOfResources)]
    IN  IF NewDate(year, month, 1) <= sow.endDate
        THEN BillingPeriodsLoopUnfiltered(sow,
                                IF month = 11 THEN year + 1 ELSE year,
                                IF month = 11 THEN 0 ELSE month + 1,
                                Append(periods, period))
        ELSE periods

\* the while loop of getBillingPeriods: one iteration per month (year, month),
\* month 0-indexed; addMonths(currentPeriodDate, 1) is the next recursive call
RECURSIVE BillingPeriodsLoop(_, _, _, _)
BillingPeriodsLoop(sow, year, month, periods) ==
    LET currentPeriodDate == NewDate(year, month, 1)
        billingEndDate == NewDate(year, month, 25)
        billingStartDate == NewDate(year, month - 1, 26)
        period == [monthId |-> <<year, month + 1>>,
                   billingPeriodStartDate |-> billingStartDate,
                   billingPeriodEndDate |-> billingEndDate,
                   regionalHolidays |-> 0,
                   actualNumberOfResources |-> sow.numberOfResources,
                   resourceLeaves |-> NoLeaves(sow.numberOfResources)]
    IN  IF currentPeriodDate <= sow.endDate
        THEN BillingPeriodsLoop(sow,
                                IF month = 11 THEN year + 1 ELSE year,
                                IF month = 11 THEN 0 ELSE month + 1,
                                IF billingEndDate >= sow.startDate
                                   /\ billingStartDate <= sow.endDate
                                THEN Append(periods, period) ELSE periods)
        ELSE periods

\* Array.prototype.reverse
Reverse(s) == [i \in 1 .. Len(s) |-> s[Len(s) + 1 - i]]

\* a plausible slip: the list returned in the order it was built
getBillingPeriodsOldestFirst(sow) ==
    BillingPeriodsLoop(sow, getFullYear(sow.startDate), getMonth(sow.startDate), <<>>)

\* a plausible slip: the loop entered at the month after the start month
getBillingPeriodsFromNextMonth(sow) ==
    Reverse(BillingPeriodsLoop(sow,
                IF getMonth(sow.startDate) = 11 THEN getFullYear(sow.startDate) + 1
                ELSE getFullYear(sow.startDate),
                IF getMonth(sow.startDate) = 11 THEN 0 ELSE getMonth(sow.startDate) + 1,
                <<>>))

getBillingPeriods(sow) ==
    Reverse(BillingPeriodsLoop(sow, getFullYear(sow.startDate),
                               getMonth(sow.startDate), <<>>))

\* Array.prototype.reduce with a sum
RECURSIVE SumLeaveDays(_)
SumLeaveDays(resourceLeaves) ==
    IF resourceLeaves = <<>> THEN 0
    ELSE Head(resourceLeaves).leaveDays + SumLeaveDays(Tail(resourceLeaves))

\* the per-period figures of the accordion (SowBillingTab's monthlyData.map)
monthlyRate(month) == getRateForYear(tab.sow.billingRates, getFullYear(month.billingPeriodEndDate))

dailyRate(month) == Rat(monthlyRate(month), 21)

effectiveStart(month) == Max(month.billingPeriodStartDate, tab.sow.startDate)

effectiveEnd(month) == Min(month.billingPeriodEndDate, tab.sow.endDate)

billableDaysAfterHolidays(month) ==
    getWorkingDays(effectiveStart(month), effectiveEnd(month)) - month.regionalHolidays

totalBillableDays(month) ==
    billableDaysAfterHolidays(month) * month.actualNumberOfResources
        - SumLeaveDays(month.resourceLeaves)

totalMonthBillingINR(month) ==
    RMax(RInt(0), RMul(RInt(totalBillableDays(month)), dailyRate(month)))

\* one row of the per-resource table
resourceBill(month, index) ==
    RMul(RInt(Max(0, billableDaysAfterHolidays(month) - month.resourceLeaves[index].leaveDays)),
         dailyRate(month))

\* the USD line under an amount: rendered only when usdConversionRate > 0
usdShown == tab.usdConversionRate > 0

\* a plausible slip: the rate applied in the anomaly flow's direction
totalMonthBillingUSDTimesRate(month) ==
    RMul(totalMonthBillingINR(month), RInt(tab.usdConversionRate))

totalMonthBillingUSD(month) == RDiv(totalMonthBillingINR(month), RInt(tab.usdConversionRate))

\* {usdConversionRate > 0 && formatUSD(totalMonthBillingINR / usdConversionRate)}:
\* the USD figure of a period's header and footer, when one is rendered
monthBillingUSD(month) == IF usdShown THEN <<totalMonthBillingUSD(month)>> ELSE <<>>

\* monthlyData.find(period => now >= start && now <= end), by index (0: undefined)
RECURSIVE FindPeriodOf(_, _, _)
FindPeriodOf(monthlyData, now, i) ==
    IF i > Len(monthlyData) THEN 0
    ELSE IF now >= monthlyData[i].billingPeriodStartDate
            /\ now <= monthlyData[i].billingPeriodEndDate THEN i
    ELSE FindPeriodOf(monthlyData, now, i + 1)

\* the preview card (useMemo previewBilling), for the ambient date now
previewBilling(now) ==
    LET found == FindPeriodOf(tab.monthlyData, now, 1)
    IN  IF found = 0 /\ Len(tab.monthlyData) = 0
        THEN [amount |-> RInt(0), billableDays |-> 0, dailyRate |-> RInt(0),
              monthlyRate |-> 0, monthId |-> <<>>]
        ELSE LET targetMonth == tab.monthlyData[IF found = 0 THEN 1 ELSE found]
                 billableDays == getWorkingDays(effectiveStart(targetMonth),
                                                effectiveEnd(targetMonth))
                                     - targetMonth.regionalHolidays
                 totalBillableDaysForAllResources ==
                     billableDays * targetMonth.actualNumberOfResources
                         - SumLeaveDays(targetMonth.resourceLeaves)
             IN  [amount |-> RMul(RInt(totalBillableDaysForAllResources),
                                  dailyRate(targetMonth)),
                  billableDays |-> billableDays,
                  dailyRate |-> dailyRate(targetMonth),
                  monthlyRate |-> monthlyRate(targetMonth),
                  monthId |-> targetMonth.monthId]

\* {usdConversionRate > 0 && formatUSD(previewBilling.amount / usdConversionRate)}:
\* the USD figure under the preview's total, when one is rendered
previewBillingUSD(now) ==
    IF tab.usdConversionRate > 0
    THEN <<RDiv(previewBilling(now).amount, RInt(tab.usdConversionRate))>>
    ELSE <<>>

\* the contracts the tab is opened on
Sows ==
    { \* 2024-01-25 .. 2024-01-29: one period, 1 working day after clipping
      [startDate |-> NewDate(2024, 0, 25), endDate |-> NewDate(2024, 0, 29),
       billingRates |-> <<[year |-> 2024, ratePerResource |-> 2100]>>,
       numberOfResources |-> 2],
      \* 2024-01-26 .. 2024-02-25: one full period of 21 working days
      [startDate |-> NewDate(2024, 0, 26), endDate |-> NewDate(2024, 1, 25),
       billingRates |-> <<[year |-> 2023, ratePerResource |-> 110000],
                          [year |-> 2024, ratePerResource |-> 120000]>>,
       numberOfResources |-> 1],
      \* 2023-12-20 .. 2024-01-10: two periods, the later year has no entry
      [startDate |-> NewDate(2023, 11, 20), endDate |-> NewDate(2024, 0, 10),
       billingRates |-> <<[year |-> 2023, ratePerResource |-> 2100]>>,
       numberOfResources |-> 1],
      \* no rate at all
      [startDate |-> NewDate(2024, 0, 25), endDate |-> NewDate(2024, 0, 29),
       billingRates |-> <<>>,
       numberOfResources |-> 1] }

\* the values typed into the USD rate field
UsdRates == {0, 83}

\* the ambient dates the preview is evaluated at
NowDates == {NewDate(2023, 11, 22), NewDate(2024, 0, 5), NewDate(2024, 1, 1),
             NewDate(2024, 5, 1)}

InitBilling ==
    /\ tab \in [pc : {"rendered"}, sow : Sows, monthlyData : {<<>>},
                usdConversionRate : {83}]
    /\ days = IdleDays
    /\ rates = IdleRates
    /\ flow = IdleFlow
    /\ card = IdleCard
    /\ generated = IdleGenerated
    /\ OthersIdle

\* useEffect([sow]): the generated periods replace monthlyData
LoadBillingPeriods ==
    /\ tab.pc = "rendered"
    /\ tab' = [tab EXCEPT !.pc = "mounted",
                          !.monthlyData = getBillingPeriods(tab.sow)]
    /\ UNCHANGED <<days, rates, flow, card, generated, others>>

MonthIds == {tab.monthlyData[i].monthId : i \in DOMAIN tab.monthlyData}

handleStateChange(monthId, key, value) ==
    /\ tab.pc = "mounted"
    /\ monthId \in MonthIds
    /\ tab' = [tab EXCEPT !.monthlyData =
                  [i \in DOMAIN tab.monthlyData |->
                      IF tab.monthlyData[i].monthId = monthId
                      THEN [tab.monthlyData[i] EXCEPT ![key] = value]
                      ELSE tab.monthlyData[i]]]
    /\ UNCHANGED <<days, rates, flow, card, generated, others>>

handleLeaveChange(monthId, resourceIndex, leaveDays) ==
    /\ tab.pc = "mounted"
    /\ monthId \in MonthIds
    /\ \E i \in DOMAIN tab.monthlyData :
          /\ tab.monthlyData[i].monthId = monthId
          /\ resourceIndex \in DOMAIN tab.monthlyData[i].resourceLeaves
    /\ tab' = [tab EXCEPT !.monthlyData =
                  [i \in DOMAIN tab.monthlyData |->
                      IF tab.monthlyData[i].monthId = monthId
                      THEN [tab.monthlyData[i] EXCEPT
                               !.resourceLeaves[resourceIndex].leaveDays = leaveDays]
                      ELSE tab.monthlyData[i]]]
    /\ UNCHANGED <<days, rates, flow, card, generated, others>>

\* Array.from({length: newSize}, (_, i) => ({..., leaveDays: currentLeaves[i]?.leaveDays || 0}))
ResizedLeaves(currentLeaves, newSize) ==
    [i \in 1 .. newSize |->
        [resourceName |-> i,
         leaveDays |-> IF i <= Len(currentLeaves) THEN currentLeaves[i].leaveDays ELSE 0]]

handleResourceCountChange(monthId, newSize) ==
    /\ tab.pc = "mounted"
    /\ monthId \in MonthIds
    /\ tab' = [tab EXCEPT !.monthlyData =
                  [i \in DOMAIN tab.monthlyData |->
                      IF tab.monthlyData[i].monthId = monthId
                      THEN [tab.monthlyData[i] EXCEPT
                               !.actualNumberOfResources = newSize,
                               !.resourceLeaves =
                                   ResizedLeaves(tab.monthlyData[i].resourceLeaves, newSize)]
                      ELSE tab.monthlyData[i]]]
    /\ UNCHANGED <<days, rates, flow, card, generated, others>>

setUsdConversionRate(value) ==
    /\ tab.pc \in {"rendered", "mounted"}
    /\ tab' = [tab EXCEPT !.usdConversionRate = value]
    /\ UNCHANGED <<days, rates, flow, card, generated, others>>

AllMonthIds == {<<y, m>> : y \in 2023 .. 2024, m \in 1 .. 12}

NextBilling ==
    \/ LoadBillingPeriods
    \/ \E monthId \in AllMonthIds, value \in 0 .. MaxHolidays :
          handleStateChange(monthId, "regionalHolidays", value)
    \/ \E monthId \in AllMonthIds, resourceIndex \in 1 .. MaxResources,
          leaveDays \in 0 .. MaxLeave :
          handleLeaveChange(monthId, resourceIndex, leaveDays)
    \/ \E monthId \in AllMonthIds, newSize \in 0 .. MaxResources :
          handleResourceCountChange(monthId, newSize)
    \/ \E value \in UsdRates : setUsdConversionRate(value)

SpecBilling == InitBilling /\ [][NextBilling]_vars

\* the periods of the tab, once loaded
Months == {tab.monthlyData[i] : i \in DOMAIN tab.monthlyData}

\* C5 as stated: no presentation of the expected amount is negative: neither
\* the preview card's amount nor any period's total.
C5_AmountsNeverNegative ==
    tab.pc = "mounted" =>
        /\ \A now \in NowDates : ~RLess(previewBilling(now).amount, RInt(0))
        /\ \A month \in Months : ~RLess(totalMonthBillingINR(month), RInt(0))

\* C6 as stated: the billable days per resource after holidays, as the tab
\* and the preview use and show them, are max(0, working days - holidays).
C6_BillableDaysClampedAtZero ==
    tab.pc = "mounted" =>
        /\ \A month \in Months :
              billableDaysAfterHolidays(month) =
                  Max(0, getWorkingDays(effectiveStart(month), effectiveEnd(month))
                             - month.regionalHolidays)
        /\ \A now \in NowDates : previewBilling(now).billableDays >= 0

\* the billable resource-days of a period as the specification defines them:
\* the sum over the first actualNumberOfResources resources of
\* max(0, effective days - leave), a missing leave entry counting as 0
RECURSIVE BillableResourceDays(_, _, _)
BillableResourceDays(effectiveDays, resourceLeaves, count) ==
    IF count = 0 THEN 0
    ELSE BillableResourceDays(effectiveDays, resourceLeaves, count - 1)
             + Max(0, effectiveDays
                          - (IF count <= Len(resourceLeaves)
                             THEN resourceLeaves[count].leaveDays ELSE 0))

RECURSIVE SumResourceBills(_, _)
SumResourceBills(month, count) ==
    IF count = 0 THEN RInt(0)
    ELSE LET rest == SumResourceBills(month, count - 1)
             bill == resourceBill(month, count)
         IN  Rat(rest.n * bill.d + bill.n * rest.d, rest.d * bill.d)

\* C7 as stated: a period's total is the daily rate times the sum of the
\* per-resource billable days, each clamped at 0, and so equals the sum of
\* the per-resource estimated bills of its table.
C7_TotalIsSumOfResourceBills ==
    tab.pc = "mounted" =>
        \A month \in Months :
            /\ REq(totalMonthBillingINR(month),
                   RMul(RInt(BillableResourceDays(
                                 Max(0, billableDaysAfterHolidays(month)),
                                 month.resourceLeaves,
                                 month.actualNumberOfResources)),
                        dailyRate(month)))
            /\ REq(totalMonthBillingINR(month),
                   SumResourceBills(month, Len(month.resourceLeaves)))

\* C8 as stated: expectedAmount * 21 = total billable resource-days * the
\* monthly rate; 120000 for 21 working days, 1 resource, no holiday and no
\* leave, and 19 * 120000 / 21 with 2 holidays.
C8_AmountTimes21 ==
    tab.pc = "mounted" =>
        \A month \in Months :
            LET amount == totalMonthBillingINR(month)
                workingDays == getWorkingDays(effectiveStart(month), effectiveEnd(month))
                resourceDays ==
                    BillableResourceDays(Max(0, workingDays - month.regionalHolidays),
                                         month.resourceLeaves,
                                         month.actualNumberOfResources)
            IN  /\ amount.n * 21 = resourceDays * monthlyRate(month) * amount.d
                /\ (/\ monthlyRate(month) = 120000
                    /\ workingDays = 21
                    /\ month.actualNumberOfResources = 1
                    /\ SumLeaveDays(month.resourceLeaves) = 0)
                   => /\ month.regionalHolidays = 0 => REq(amount, RInt(120000))
                      /\ month.regionalHolidays = 2 => REq(amount, Rat(19 * 120000, 21))

(***************************************************************************)
(* The anomaly-detection flow (generateBillingAnomalyExplanationFlow): its *)
(* synchronous part up to the prompt call, then the generator's response.  *)
(* An optional value is a sequence of length 0 (undefined, null) or 1.     *)
(***************************************************************************)
ANOMALY_THRESHOLD_PERCENTAGE == Rat(5, 100)

\* billingRates.find(rate => rate.year === currentYear), by index (0: undefined)
RECURSIVE FindRateOfYear(_, _, _)
FindRateOfYear(billingRates, currentYear, i) ==
    IF i > Len(billingRates) THEN 0
    ELSE IF billingRates[i].year = currentYear THEN i
    ELSE FindRateOfYear(billingRates, currentYear, i + 1)

\* the for loop over the first actualNumberOfResources resources;
\* resourceLeaves[i]?.leaveDays || 0
RECURSIVE TotalExpectedBillingLoop(_, _, _, _)
TotalExpectedBillingLoop(input, effectiveBaseWorkingDays, currentYearBillingRate, count) ==
    IF count = 0 THEN 0
    ELSE LET resourceLeaveDays ==
                 IF count <= Len(input.resourceLeaves)
                 THEN input.resourceLeaves[count].leaveDays ELSE 0
             billableDays == Max(0, effectiveBaseWorkingDays - resourceLeaveDays)
         IN  TotalExpectedBillingLoop(input, effectiveBaseWorkingDays,
                                      currentYearBillingRate, count - 1)
                 + billableDays * currentYearBillingRate

totalExpectedBilling(input, currentYearBillingRate) ==
    LET baseWorkingDaysInPeriod ==
            getWorkingDaysForPeriod(input.billingPeriodStartDate, input.billingPeriodEndDate)
        effectiveBaseWorkingDays == baseWorkingDaysInPeriod - input.regionalHolidays
    IN  TotalExpectedBillingLoop(input, effectiveBaseWorkingDays, currentYearBillingRate,
                                 input.actualNumberOfResources)

\* a plausible slip: the test for a positive rate left out
toUSDWhenDefined(amount, usdConversionRate) ==
    IF Len(usdConversionRate) = 1
    THEN amount * usdConversionRate[1]
    ELSE amount

\* usdConversionRate !== undefined && usdConversionRate > 0 ? amount * rate : amount
toUSD(amount, usdConversionRate) ==
    IF Len(usdConversionRate) = 1 /\ usdConversionRate[1] > 0
    THEN amount * usdConversionRate[1]
    ELSE amount

relativeDeviation(expectedBillingAmountUSD, actualBillingAmountUSD) ==
    LET deviation == Abs(actualBillingAmountUSD - expectedBillingAmountUSD)
    IN  IF expectedBillingAmountUSD > 0
        THEN RDiv(RInt(deviation), RInt(expectedBillingAmountUSD))
        ELSE IF deviation > 0 THEN RInt(1) ELSE RInt(0)

\* a plausible slip: >= for >
isAnomalyAtOrOverThreshold(deviationRatio) ==
    ~RLess(deviationRatio, ANOMALY_THRESHOLD_PERCENTAGE)

isAnomalyDetectedBySystem(deviationRatio) ==
    RLess(ANOMALY_THRESHOLD_PERCENTAGE, deviationRatio)

\* the inputs of the flow: rate histories, contract span and period, amounts
FlowRates ==
    { <<>>,
      <<[year |-> 2023, ratePerResource |-> 20]>>,
      <<[year |-> 2023, ratePerResource |-> 10], [year |-> 2024, ratePerResource |-> 20]>> }

FlowPeriods ==
    { \* 2024-01-01 .. 2024-01-05: 5 working days
      [sowStartDate |-> NewDate(2023, 6, 1), sowEndDate |-> NewDate(2024, 5, 30),
       billingPeriodStartDate |-> NewDate(2024, 0, 1),
       billingPeriodEndDate |-> NewDate(2024, 0, 5)],
      \* 2023-12-28 .. 2023-12-29: 2 working days
      [sowStartDate |-> NewDate(2023, 6, 1), sowEndDate |-> NewDate(2024, 5, 30),
       billingPeriodStartDate |-> NewDate(2023, 11, 28),
       billingPeriodEndDate |-> NewDate(2023, 11, 29)] }

ActualAmounts == {0, 100, 105, 110}

FlowUsdRates == {<<>>, <<-1>>, <<0>>, <<2>>}

LeaveLists ==
    SeqsUpTo({[resourceName |-> 0, leaveDays |-> n] : n \in 0 .. MaxLeave}, MaxResources)

FlowInput ==
    { [billingRates |-> r,
       sowStartDate |-> p.sowStartDate,
       sowEndDate |-> p.sowEndDate,
       billingPeriodStartDate |-> p.billingPeriodStartDate,
       billingPeriodEndDate |-> p.billingPeriodEndDate,
       actualNumberOfResources |-> n,
       regionalHolidays |-> h,
       resourceLeaves |-> l,
       actualBillingAmount |-> a,
       usdConversionRate |-> u] :
         r \in FlowRates, p \in FlowPeriods, n \in 0 .. MaxResources,
         h \in 0 .. MaxHolidays, l \in LeaveLists, a \in ActualAmounts,
         u \in FlowUsdRates }

InitFlow ==
    /\ flow \in [pc : {"called"}, input : FlowInput,
                 currentYearBillingRate : {0},
                 expectedBillingAmountUSD : {0},
                 actualBillingAmountUSD : {0},
                 isAnomaly : {FALSE},
                 response : {<<>>},
                 output : {<<>>},
                 error : {""}]
    /\ days = IdleDays
    /\ rates = IdleRates
    /\ tab = IdleTab
    /\ card = IdleCard
    /\ generated = IdleGenerated
    /\ OthersIdle

\* the flow body up to the awaited prompt call; a missing entry for the year
\* of the period end throws.  The period dates are taken as local days (the
\* flow parses them as UTC midnights and shifts by the timezone offset).
RunFlow ==
    /\ flow.pc = "called"
    /\ LET input == flow.input
           currentYear == getFullYear(input.billingPeriodEndDate)
           entry == FindRateOfYear(input.billingRates, currentYear, 1)
       IN  IF entry = 0
           THEN flow' = [flow EXCEPT !.pc = "failed",
                                     !.error = "Billing rate for year not found"]
           ELSE LET currentYearBillingRate == input.billingRates[entry].ratePerResource
                    expectedBillingAmountUSD ==
                        toUSD(totalExpectedBilling(input, currentYearBillingRate),
                              input.usdConversionRate)
                    actualBillingAmountUSD ==
                        toUSD(input.actualBillingAmount, input.usdConversionRate)
                IN  flow' = [flow EXCEPT
                        !.pc = "prompting",
                        !.currentYearBillingRate = currentYearBillingRate,
                        !.expectedBillingAmountUSD = expectedBillingAmountUSD,
                        !.actualBillingAmountUSD = actualBillingAmountUSD,
                        !.isAnomaly =
                            isAnomalyDetectedBySystem(
                                relativeDeviation(expectedBillingAmountUSD,
                                                  actualBillingAmountUSD))]
    /\ UNCHANGED <<days, rates, tab, card, generated, others>>

\* a plausible slip: return output, the generator's answer as it came
flowResultEchoesGenerator(response, expectedBillingAmountUSD) == response

\* return { isAnomaly: output.isAnomaly, expectedBillingAmount:
\* expectedBillingAmountUSD, explanation: output.explanation }
flowResult(response, expectedBillingAmountUSD) ==
    [isAnomaly |-> response.isAnomaly,
     expectedBillingAmount |-> expectedBillingAmountUSD,
     explanation |-> response.explanation]

\* the generator answers: no output throws, otherwise its verdict is returned
\* with the flow's own expected amount
PromptResponds(response) ==
    /\ flow.pc = "prompting"
    /\ IF response = <<>>
       THEN flow' = [flow EXCEPT !.pc = "failed", !.error = "No output from AI model."]
       ELSE flow' = [flow EXCEPT
                !.pc = "returned",
                !.response = response,
                !.output = <<flowResult(response[1], flow.expectedBillingAmountUSD)>>]
    /\ UNCHANGED <<days, rates, tab, card, generated, others>>

\* the amounts the generator may put in its own answer
GeneratorAmounts == {0, 7}

\* what the generator can answer: nothing, or a record of the output schema
PromptResponses ==
    {<<>>} \cup {<<[isAnomaly |-> b, expectedBillingAmount |-> e, explanation |-> "text"]>> :
                    b \in BOOLEAN, e \in GeneratorAmounts}

NextFlow ==
    \/ RunFlow
    \/ \E response \in PromptResponses : PromptResponds(response)

SpecFlow == InitFlow /\ [][NextFlow]_vars

\* C4 as stated: with no rate resolvable for the year of the period, the
\* flow does not raise an error and completes with an expected amount of 0.
C4_MissingRateIsZeroNotAnError ==
    (/\ flow.pc # "called"
     /\ Applicable(flow.input.billingRates,
                   getFullYear(flow.input.billingPeriodEndDate)) = {})
    => /\ flow.error # "Billing rate for year not found"
       /\ flow.expectedBillingAmountUSD = 0

\* C9 as stated: with no conversion rate, the flow's expected amount is the
\* billing calculator's leave-adjusted amount: billable resource-days of the
\* clipped period * the resolved monthly rate / 21.
C9_FlowExpectedIsCalculatorAmount ==
    (/\ flow.pc \in {"prompting", "returned"}
     /\ flow.input.usdConversionRate = <<>>)
    => LET input == flow.input
           workingDays ==
               getWorkingDays(Max(input.billingPeriodStartDate, input.sowStartDate),
                              Min(input.billingPeriodEndDate, input.sowEndDate))
           resourceDays ==
               BillableResourceDays(Max(0, workingDays - input.regionalHolidays),
                                    input.resourceLeaves,
                                    input.actualNumberOfResources)
           rate == getRateForYear(input.billingRates,
                                  getFullYear(input.billingPeriodEndDate))
       IN  REq(RInt(flow.expectedBillingAmountUSD),
               RMul(RInt(resourceDays), Rat(rate, 21)))

\* C10: the system flag is relativeDeviation > 0.05, with relativeDeviation
\* = |actual - expected| / expected for expected > 0, else 1 for a nonzero
\* deviation, else 0: 0 against 0 is no anomaly, a positive amount against 0
\* is one, equal amounts are none, 10% over is one, exactly 5% is none.
C10_SystemFlag ==
    flow.pc \in {"prompting", "returned"} =>
        LET expected == flow.expectedBillingAmountUSD
            actual == flow.actualBillingAmountUSD
            deviation == Abs(actual - expected)
        IN  /\ flow.isAnomaly <=> (IF expected > 0 THEN 100 * deviation > 5 * expected
                                   ELSE deviation > 0)
            /\ (expected = 0 /\ actual = 0) => ~flow.isAnomaly
            /\ (expected = 0 /\ actual > 0) => flow.isAnomaly
            /\ actual = expected => ~flow.isAnomaly
            /\ (expected > 0 /\ 10 * actual = 11 * expected) => flow.isAnomaly
            /\ (expected > 0 /\ 20 * deviation = expected) => ~flow.isAnomaly

\* an actual amount exactly 5% over a positive expected amount was not flagged
C10_Witness ==
    /\ flow.pc = "prompting"
    /\ flow.expectedBillingAmountUSD = 100
    /\ flow.actualBillingAmountUSD = 105
    /\ ~flow.isAnomaly

\* C11: when the flow returns, the verdict it returns is the one in the
\* generator's answer, whatever the flow's own threshold test said, and the
\* expected amount it returns is the amount the flow computed from its input,
\* not the amount in the generator's answer.
C11_VerdictFromGeneratorAmountFromFlow ==
    flow.pc = "returned" =>
        LET input == flow.input
            expected == toUSD(totalExpectedBilling(input, flow.currentYearBillingRate),
                              input.usdConversionRate)
        IN  /\ flow.output[1].isAnomaly = flow.response[1].isAnomaly
            /\ flow.output[1].expectedBillingAmount = expected

\* the generator contradicts the flow's own flag and names another amount
C11_Witness ==
    /\ flow.pc = "returned"
    /\ flow.response[1].isAnomaly # flow.isAnomaly
    /\ flow.output[1].isAnomaly # flow.isAnomaly
    /\ flow.response[1].expectedBillingAmount # flow.expectedBillingAmountUSD
    /\ flow.expectedBillingAmountUSD > 0

(***************************************************************************)
(* SpecConversion: the two places a USD rate is applied, side by side: the *)
(* billing tab opened on a short contract, and the anomaly flow.           *)
(***************************************************************************)
\* the contracts of less than a week
ConversionSows == {sow \in Sows : sow.endDate - sow.startDate < 7}

\* a rate below zero typed into the USD rate field
NegativeUsdRates == {-1}

InitConversion ==
    \/ InitBilling /\ tab.sow \in ConversionSows
    \/ InitFlow

NextConversion ==
    \/ NextBilling
    \/ \E value \in NegativeUsdRates : setUsdConversionRate(value)
    \/ NextFlow

SpecConversion == InitConversion /\ [][NextConversion]_vars

\* the flow's input carries no rate, or one that is not positive
FlowRateUnusable ==
    \/ flow.input.usdConversionRate = <<>>
    \/ flow.input.usdConversionRate[1] <= 0

\* C12: with a USD rate that is zero, negative or absent nothing is converted
\* and nothing fails: the tab renders no USD figure for any period nor under
\* the preview, the flow keeps the expected and the actual amount as they
\* are, and the only failures of the flow are a missing rate entry and a
\* missing answer of the generator.
C12_NoConversionWithoutPositiveRate ==
    /\ (tab.pc # "idle" /\ tab.usdConversionRate <= 0) =>
          /\ \A month \in Months : monthBillingUSD(month) = <<>>
          /\ \A now \in NowDates : previewBillingUSD(now) = <<>>
    /\ (flow.pc \in {"prompting", "returned"} /\ FlowRateUnusable) =>
          /\ flow.expectedBillingAmountUSD =
                 totalExpectedBilling(flow.input, flow.currentYearBillingRate)
          /\ flow.actualBillingAmountUSD = flow.input.actualBillingAmount
    /\ flow.pc = "failed" =>
          \/ /\ flow.error = "Billing rate for year not found"
             /\ FindRateOfYear(flow.input.billingRates,
                               getFullYear(flow.input.billingPeriodEndDate), 1) = 0
          \/ /\ flow.error = "No output from AI model."
             /\ flow.response = <<>>

\* the flow ran to its return with a negative rate and non-zero amounts
C12_Witness ==
    /\ flow.pc = "returned"
    /\ flow.input.usdConversionRate = <<-1>>
    /\ flow.expectedBillingAmountUSD > 0
    /\ flow.actualBillingAmountUSD = 110

\* C13: with a rate r > 0 the tab reports amount / r, for every period's
\* total and for the preview, while the flow reports expected * r and
\* actual * r.
C13_TabDividesFlowMultiplies ==
    /\ (tab.pc # "idle" /\ tab.usdConversionRate > 0) =>
          /\ \A month \in Months :
                /\ Len(monthBillingUSD(month)) = 1
                /\ REq(RMul(monthBillingUSD(month)[1], RInt(tab.usdConversionRate)),
                       totalMonthBillingINR(month))
          /\ \A now \in NowDates :
                /\ Len(previewBillingUSD(now)) = 1
                /\ REq(RMul(previewBillingUSD(now)[1], RInt(tab.usdConversionRate)),
                       previewBilling(now).amount)
    /\ (flow.pc \in {"prompting", "returned"} /\ ~FlowRateUnusable) =>
          /\ flow.expectedBillingAmountUSD =
                 totalExpectedBilling(flow.input, flow.currentYearBillingRate)
                     * flow.input.usdConversionRate[1]
          /\ flow.actualBillingAmountUSD =
                 flow.input.actualBillingAmount * flow.input.usdConversionRate[1]

\* the tab shows a period billed at a non-zero total with the rate 83
C13_Witness ==
    /\ tab.pc = "mounted"
    /\ tab.usdConversionRate = 83
    /\ \E month \in Months :
          /\ RLess(RInt(0), totalMonthBillingINR(month))
          /\ monthBillingUSD(month) = <<RDiv(totalMonthBillingINR(month), RInt(83))>>

(***************************************************************************)
(* SpecRenewal: the contract card's expiry and renewal flags.  The end     *)
(* date is a local midnight (parseISO of a yyyy-MM-dd string); now is the  *)
(* clock, a day and the milliseconds elapsed since its midnight.           *)
(***************************************************************************)
\* parseISO of a date-only string: the local midnight of that day
parseISO(date) == [date |-> date, ms |-> 0]

\* date-fns compareAsc: -1, 0 or 1
compareAsc(dateLeft, dateRight) ==
    IF dateLeft.date < dateRight.date
          \/ (dateLeft.date = dateRight.date /\ dateLeft.ms < dateRight.ms) THEN -1
    ELSE IF dateLeft = dateRight THEN 0
    ELSE 1

\* date-fns isBefore
isBefore(date, dateToCompare) == compareAsc(date, dateToCompare) = -1

\* Date.getDate: the day of the month, 1-based
getDate(date) == date - NewDate(getFullYear(date), getMonth(date), 1) + 1

\* Date.setDate and Date.setMonth: a day past the month's end rolls over
setDate(instant, d) ==
    [instant EXCEPT !.date = NewDate(getFullYear(instant.date), getMonth(instant.date), d)]

setMonth(instant, m) ==
    [instant EXCEPT !.date = NewDate(getFullYear(instant.date), m, getDate(instant.date))]

differenceInCalendarMonths(dateLeft, dateRight) ==
    (getFullYear(dateLeft.date) - getFullYear(dateRight.date)) * 12
        + (getMonth(dateLeft.date) - getMonth(dateRight.date))

isLastDayOfMonth(instant) ==
    getDate(instant.date) = DaysInMonth(getFullYear(instant.date), getMonth(instant.date))

\* date-fns differenceInMonths: the number of full months between the two
\* instants, truncated toward zero
differenceInMonths(dateLeft, dateRight) ==
    LET sign == compareAsc(dateLeft, dateRight)
        difference == Abs(differenceInCalendarMonths(dateLeft, dateRight))
    IN  IF difference < 1 THEN 0
        ELSE LET endOfFeb == IF getMonth(dateLeft.date) = 1 /\ getDate(dateLeft.date) > 27
                             THEN setDate(dateLeft, 30) ELSE dateLeft
                 shifted == setMonth(endOfFeb, getMonth(endOfFeb.date) - sign * difference)
                 isLastMonthNotFull ==
                     IF isLastDayOfMonth(dateLeft) /\ difference = 1
                            /\ compareAsc(dateLeft, dateRight) = 1
                     THEN FALSE
                     ELSE compareAsc(shifted, dateRight) = 0 - sign
             IN  sign * (difference - (IF isLastMonthNotFull THEN 1 ELSE 0))

\* date-fns addMonths: the same day of the month, or the month's last day
addMonths(date, amount) ==
    LET first == NewDate(getFullYear(date), getMonth(date) + amount, 1)
    IN  first + Min(getDate(date), DaysInMonth(getFullYear(first), getMonth(first))) - 1

\* const isExpired = isBefore(endDate, now)
isExpired(endDate, now) == isBefore(parseISO(endDate), now)

\* const isRenewalDue = !isExpired && differenceInMonths(endDate, now) <= 3
isRenewalDue(endDate, now) ==
    ~isExpired(endDate, now) /\ differenceInMonths(parseISO(endDate), now) <= 3

\* the days the card is rendered on: 2024-01-25 and the days after it
CardToday == {NewDate(2024, 0, 25) + k : k \in 0 .. MaxDay}

\* end dates from two days before the rendering day to over four months after
EndDateOffsets == -2 .. 125

\* the clock at midnight and a millisecond after it
ClockMs == {0, 1}

InitRenewal ==
    /\ card \in {[pc |-> "ready", endDate |-> today + offset,
                  now |-> [date |-> today, ms |-> ms],
                  isExpired |-> FALSE, isRenewalDue |-> FALSE] :
                    today \in CardToday, offset \in EndDateOffsets, ms \in ClockMs}
    /\ days = IdleDays
    /\ rates = IdleRates
    /\ tab = IdleTab
    /\ flow = IdleFlow
    /\ generated = IdleGenerated
    /\ OthersIdle

\* one render of the card
RenderSowCard ==
    /\ card.pc = "ready"
    /\ card' = [card EXCEPT !.pc = "rendered",
                            !.isExpired = isExpired(card.endDate, card.now),
                            !.isRenewalDue = isRenewalDue(card.endDate, card.now)]
    /\ UNCHANGED <<days, rates, tab, flow, generated, others>>

NextRenewal == RenderSowCard

SpecRenewal == InitRenewal /\ [][NextRenewal]_vars

\* the day the card is rendered on, as the date the claims call today
Today == card.now.date

\* C14 as stated: the renewal flag is set iff the end date is today or later
\* (a contract ending today is not yet expired) and the whole-month
\* difference between the end date and today is at most 3.
C14_RenewalDueIff ==
    card.pc = "rendered" =>
        (card.isRenewalDue <=>
            /\ card.endDate >= Today
            /\ differenceInMonths(parseISO(card.endDate), parseISO(Today)) <= 3)

\* C15 as stated: a contract ending 3 months minus 1 day after today is due
\* for renewal, one ending 3 months plus 1 day after today is not, and one
\* that ended yesterday is expired and not due.
C15_RenewalBoundary ==
    card.pc = "rendered" =>
        /\ card.endDate = addMonths(Today, 3) - 1 => card.isRenewalDue
        /\ card.endDate = addMonths(Today, 3) + 1 => ~card.isRenewalDue
        /\ card.endDate = Today - 1 => card.isExpired /\ ~card.isRenewalDue

\* C16 as stated: the contract is expired iff its end date is before today,
\* and it is in exactly one of the states expired, renewal due, and active
\* but not yet due; never expired and due together.
C16_ExpiredIffAndExclusive ==
    card.pc = "rendered" =>
        /\ card.isExpired <=> card.endDate < Today
        /\ ~(card.isExpired /\ card.isRenewalDue)

(***************************************************************************)
(* SpecPeriods: getBillingPeriods applied to contracts starting around the *)
(* turn of the year 2023/2024 and lasting up to eleven weeks.              *)
(***************************************************************************)
\* start dates: 2023-12-20 and the days after it
PeriodStarts == {NewDate(2023, 11, 20) + k : k \in 0 .. MaxDay}

\* endDate - startDate, in days
SpanLengths == 0 .. 75

InitPeriods ==
    /\ generated \in {[pc |-> "called",
                       sow |-> [startDate |-> startDate, endDate |-> startDate + length,
                                numberOfResources |-> numberOfResources],
                       periods |-> <<>>] :
                         startDate \in PeriodStarts, length \in SpanLengths,
                         numberOfResources \in 1 .. MaxResources}
    /\ days = IdleDays
    /\ rates = IdleRates
    /\ tab = IdleTab
    /\ flow = IdleFlow
    /\ card = IdleCard
    /\ OthersIdle

CallGetBillingPeriods ==
    /\ generated.pc = "called"
    /\ generated' = [generated EXCEPT !.pc = "returned",
                                      !.periods = getBillingPeriods(generated.sow)]
    /\ UNCHANGED <<days, rates, tab, flow, card, others>>

NextPeriods == CallGetBillingPeriods

SpecPeriods == InitPeriods /\ [][NextPeriods]_vars

\* the days of a returned period that lie inside the contract span
ClippedDays(period) ==
    Max(period.billingPeriodStartDate, generated.sow.startDate)
        .. Min(period.billingPeriodEndDate, generated.sow.endDate)

\* the positions of the returned periods whose clipped window holds the day
PeriodsCovering(date) ==
    {i \in DOMAIN generated.periods : date \in ClippedDays(generated.periods[i])}

\* C17 as stated: the returned periods, each clipped to the contract span,
\* cover every day from startDate to endDate exactly once.
C17_ClippedPeriodsCoverSpanOnce ==
    generated.pc = "returned" =>
        \A date \in generated.sow.startDate .. generated.sow.endDate :
            Cardinality(PeriodsCovering(date)) = 1

\* the returned periods, as a set
ReturnedPeriods == {generated.periods[i] : i \in DOMAIN generated.periods}

MonthsOfSpan ==
    {<<getFullYear(date), getMonth(date) + 1>> :
        date \in generated.sow.startDate .. generated.sow.endDate}

ReturnedMonthIds == {period.monthId : period \in ReturnedPeriods}

\* C19 as stated: the monthIds returned are exactly the calendar months from
\* the month of startDate through the month of endDate, each once.
C19_Original_EveryMonthOfSpan ==
    generated.pc = "returned" =>
        /\ ReturnedMonthIds = MonthsOfSpan
        /\ Cardinality(ReturnedMonthIds) = Len(generated.periods)

\* the month of startDate, when startDate falls after the 25th
StartMonthPassedOver ==
    IF getDate(generated.sow.startDate) > 25
    THEN {<<getFullYear(generated.sow.startDate), getMonth(generated.sow.startDate) + 1>>}
    ELSE {}

\* C19 amended: the monthIds returned are the calendar months from the month
\* of startDate through the month of endDate, each once, without the month
\* of startDate when startDate falls after its 25th.
C19_EveryMonthOfSpanButLateStart ==
    generated.pc = "returned" =>
        /\ ReturnedMonthIds = MonthsOfSpan \ StartMonthPassedOver
        /\ Cardinality(ReturnedMonthIds) = Len(generated.periods)

\* a start after the 25th, with two later months returned
C19_Witness ==
    /\ generated.pc = "returned"
    /\ StartMonthPassedOver # {}
    /\ Cardinality(ReturnedMonthIds) = 2
    /\ Cardinality(MonthsOfSpan) = 3

\* monthId a is a later month than monthId b
LaterMonth(a, b) == a[1] > b[1] \/ (a[1] = b[1] /\ a[2] > b[2])

\* C20: the list is most recent first: each entry has a later monthId and a
\* later billing window than the entry after it.
C20_MostRecentFirst ==
    generated.pc = "returned" =>
        \A i \in 1 .. Len(generated.periods) - 1 :
            /\ LaterMonth(generated.periods[i].monthId, generated.periods[i + 1].monthId)
            /\ generated.periods[i].billingPeriodStartDate
                   > generated.periods[i + 1].billingPeriodEndDate

\* three periods were returned
C20_Witness ==
    /\ generated.pc = "returned"
    /\ Len(generated.periods) = 3
    /\ generated.periods[1].monthId = <<2024, 2>>
    /\ generated.periods[3].monthId = <<2023, 12>>

\* C21: every period getBillingPeriods returns has no regional holidays, the
\* contract's number of resources as its actual number, and one leave entry
\* per resource of the contract, each with zero leave days.
C21_FreshPeriodDefaults ==
    generated.pc = "returned" =>
        \A period \in ReturnedPeriods :
            /\ period.regionalHolidays = 0
            /\ period.actualNumberOfResources = generated.sow.numberOfResources
            /\ Len(period.resourceLeaves) = generated.sow.numberOfResources
            /\ \A i \in DOMAIN period.resourceLeaves :
                  period.resourceLeaves[i].leaveDays = 0

\* two periods were generated for a contract of two resources
C21_Witness ==
    /\ generated.pc = "returned"
    /\ generated.sow.numberOfResources = 2
    /\ Len(generated.periods) = 2
    /\ Len(generated.periods[2].resourceLeaves) = 2

(***************************************************************************)
(* SpecRollup: the manager analytics table, computed from the list of      *)
(* contracts: month and quarter columns, one row of amounts per contract,  *)
(* totals per client manager and grand totals.                             *)
(***************************************************************************)
MaxSows == 2

\* a + b on amounts; equal denominators are kept
RAdd(a, b) ==
    IF a.d = b.d THEN Rat(a.n + b.n, a.d)
    ELSE IF a.n = 0 THEN b
    ELSE IF b.n = 0 THEN a
    ELSE Rat(a.n * b.d + b.n * a.d, a.d * b.d)

\* date-fns min and max over a non-empty list of dates
RECURSIVE MinOfDates(_)
MinOfDates(dates) ==
    IF Len(dates) = 1 THEN dates[1] ELSE Min(Head(dates), MinOfDates(Tail(dates)))

RECURSIVE MaxOfDates(_)
MaxOfDates(dates) ==
    IF Len(dates) = 1 THEN dates[1] ELSE Max(Head(dates), MaxOfDates(Tail(dates)))

\* sows.flatMap(sow => [parseISO(sow.startDate), parseISO(sow.endDate)])
RECURSIVE allSowDates(_)
allSowDates(sows) ==
    IF sows = <<>> THEN <<>>
    ELSE <<Head(sows).startDate, Head(sows).endDate>> \o allSowDates(Tail(sows))

\* date-fns eachMonthOfInterval: the first day of every month from the month
\* of start through the month of end
RECURSIVE EachMonthLoop(_, _, _)
EachMonthLoop(year, month, end) ==
    IF NewDate(year, month, 1) > end THEN <<>>
    ELSE <<NewDate(year, month, 1)>>
             \o EachMonthLoop(IF month = 11 THEN year + 1 ELSE year,
                              IF month = 11 THEN 0 ELSE month + 1, end)

eachMonthOfInterval(start, end) == EachMonthLoop(getFullYear(start), getMonth(start), end)

\* format(date, 'yyyy-MM') and `${year}-Q${quarter}` as column ids
MonthColumnId(date) == [year |-> getFullYear(date), month |-> getMonth(date) + 1, quarter |-> 0]

QuarterColumnId(date) ==
    [year |-> getFullYear(date), month |-> 0, quarter |-> (getMonth(date) \div 3) + 1]

\* month === 2 || month === 5 || month === 8 || month === 11
EndsQuarter(date) == getMonth(date) \in {2, 5, 8, 11}

\* the forEach that builds the columns: a month column, and a quarter column
\* after the last month of a quarter
RECURSIVE ColumnsLoop(_, _, _)
ColumnsLoop(monthIntervals, i, columns) ==
    IF i > Len(monthIntervals) THEN columns
    ELSE LET date == monthIntervals[i]
             withMonth == Append(columns, [id |-> MonthColumnId(date), isQuarterly |-> FALSE])
         IN  ColumnsLoop(monthIntervals, i + 1,
                         IF EndsQuarter(date)
                         THEN Append(withMonth, [id |-> QuarterColumnId(date),
                                                 isQuarterly |-> TRUE])
                         ELSE withMonth)

\* date-fns endOfMonth, as a day
endOfMonth(date) ==
    NewDate(getFullYear(date), getMonth(date), DaysInMonth(getFullYear(date), getMonth(date)))

\* the amount of one contract for one calendar month
monthBilling(sow, monthDate) ==
    LET monthStart == monthDate
        monthEnd == endOfMonth(monthDate)
    IN  IF sow.startDate <= monthEnd /\ monthStart <= sow.endDate
        THEN LET rate == getRateForYear(sow.billingRates, getFullYear(monthStart))
                 workingDays == getWorkingDays(Max(monthStart, sow.startDate),
                                               Min(monthEnd, sow.endDate))
             IN  RMul(RInt(workingDays * sow.numberOfResources), Rat(rate, 21))
        ELSE RInt(0)

\* the first forEach over the months: billingData[monthId] = billing
monthlyBillingData(sow, monthIntervals) ==
    [id \in {MonthColumnId(monthIntervals[i]) : i \in DOMAIN monthIntervals} |->
        monthBilling(sow, NewDate(id.year, id.month - 1, 1))]

\* a plausible slip: the running sum is not reset after a quarter column
RECURSIVE QuarterLoopNoReset(_, _, _, _)
QuarterLoopNoReset(monthIntervals, i, quarterSum, billingData) ==
    IF i > Len(monthIntervals) THEN billingData
    ELSE LET date == monthIntervals[i]
             sum == RAdd(quarterSum, billingData[MonthColumnId(date)])
         IN  IF EndsQuarter(date)
             THEN QuarterLoopNoReset(monthIntervals, i + 1, sum,
                                     (QuarterColumnId(date) :> sum) @@ billingData)
             ELSE QuarterLoopNoReset(monthIntervals, i + 1, sum, billingData)

\* the second forEach over the months: the running quarter sum, stored and
\* reset at the end of each quarter
RECURSIVE QuarterLoop(_, _, _, _)
QuarterLoop(monthIntervals, i, quarterSum, billingData) ==
    IF i > Len(monthIntervals) THEN billingData
    ELSE LET date == monthIntervals[i]
             sum == RAdd(quarterSum, billingData[MonthColumnId(date)])
         IN  IF EndsQuarter(date)
             THEN QuarterLoop(monthIntervals, i + 1, RInt(0),
                              (QuarterColumnId(date) :> sum) @@ billingData)
             ELSE QuarterLoop(monthIntervals, i + 1, sum, billingData)

\* the billingData of one contract
sowBillingData(sow, monthIntervals) ==
    QuarterLoop(monthIntervals, 1, RInt(0), monthlyBillingData(sow, monthIntervals))

\* billingData[col.id] || 0
ValueOrZero(billingData, id) ==
    IF id \in DOMAIN billingData THEN billingData[id] ELSE RInt(0)

\* a plausible slip: = for +=
addTotalsOverwrite(totals, billingData) ==
    [id \in DOMAIN totals |-> ValueOrZero(billingData, id)]

\* columns.forEach(col => totals[col.id] += values[col.id] || 0)
addTotals(totals, billingData) ==
    [id \in DOMAIN totals |-> RAdd(totals[id], ValueOrZero(billingData, id))]

\* columns.forEach(col => totals[col.id] = 0)
zeroTotals(columns) == [id \in {columns[i].id : i \in DOMAIN columns} |-> RInt(0)]

\* the contracts of one manager, in the order of the list
RECURSIVE sowsOfManager(_, _)
sowsOfManager(sows, manager) ==
    IF sows = <<>> THEN <<>>
    ELSE IF Head(sows).clientManager = manager
         THEN <<Head(sows)>> \o sowsOfManager(Tail(sows), manager)
         ELSE sowsOfManager(Tail(sows), manager)

\* managerSows.map(...) with the totals accumulated along the way
RECURSIVE ManagerLoop(_, _, _, _, _)
ManagerLoop(managerSows, i, monthIntervals, sowsWithBilling, managerTotals) ==
    IF i > Len(managerSows)
    THEN [sowsWithBilling |-> sowsWithBilling, managerTotals |-> managerTotals]
    ELSE LET billingData == sowBillingData(managerSows[i], monthIntervals)
         IN  ManagerLoop(managerSows, i + 1, monthIntervals,
                         Append(sowsWithBilling,
                                [sow |-> managerSows[i], billingData |-> billingData]),
                         addTotals(managerTotals, billingData))

\* the client managers, in sort order
ManagerNames == <<"Alice Johnson", "Bob Williams">>

\* Object.keys(sowsByManager).sort()
sortedManagers(sows) ==
    SelectSeq(ManagerNames, LAMBDA manager : sowsOfManager(sows, manager) # <<>>)

RECURSIVE GrandTotalsLoop(_, _, _, _)
GrandTotalsLoop(managers, i, data, grandTotals) ==
    IF i > Len(managers) THEN grandTotals
    ELSE GrandTotalsLoop(managers, i + 1, data,
                         addTotals(grandTotals, data[managers[i]].managerTotals))

\* the useMemo of ManagerAnalytics
rollup(sows) ==
    IF Len(sows) = 0
    THEN [groupedData |-> <<>>, monthColumns |-> <<>>, grandTotals |-> <<>>]
    ELSE LET monthIntervals == eachMonthOfInterval(MinOfDates(allSowDates(sows)),
                                                   MaxOfDates(allSowDates(sows)))
             columns == ColumnsLoop(monthIntervals, 1, <<>>)
             managers == sortedManagers(sows)
             data == [manager \in {managers[i] : i \in DOMAIN managers} |->
                         ManagerLoop(sowsOfManager(sows, manager), 1, monthIntervals,
                                     <<>>, zeroTotals(columns))]
         IN  [groupedData |-> data,
              monthColumns |-> columns,
              grandTotals |-> GrandTotalsLoop(managers, 1, data, zeroTotals(columns))]

\* the spans of the contracts in the table: two across the turn of the year,
\* one into April 2024, one on a weekend
RollupSpans ==
    { <<NewDate(2023, 10, 15), NewDate(2023, 11, 20)>>,
      <<NewDate(2023, 11, 28), NewDate(2024, 1, 10)>>,
      <<NewDate(2024, 0, 10), NewDate(2024, 3, 5)>>,
      <<NewDate(2024, 2, 30), NewDate(2024, 2, 31)>> }

RollupSows ==
    { [clientManager |-> manager, startDate |-> span[1], endDate |-> span[2],
       numberOfResources |-> 2,
       billingRates |-> <<[year |-> 2023, ratePerResource |-> 2100],
                          [year |-> 2024, ratePerResource |-> 4200]>>] :
        manager \in {ManagerNames[i] : i \in DOMAIN ManagerNames},
        span \in RollupSpans }

InitRollup ==
    /\ analytics \in [pc : {"mounted"}, sows : SeqsUpTo(RollupSows, MaxSows),
                      groupedData : {<<>>}, monthColumns : {<<>>}, grandTotals : {<<>>}]
    /\ days = IdleDays
    /\ rates = IdleRates
    /\ tab = IdleTab
    /\ flow = IdleFlow
    /\ card = IdleCard
    /\ generated = IdleGenerated
    /\ form = IdleForm
    /\ home = IdleHome
    /\ cloud = IdleCloud

\* one evaluation of the memoised table
ComputeRollup ==
    /\ analytics.pc = "mounted"
    /\ LET result == rollup(analytics.sows)
       IN  analytics' = [analytics EXCEPT !.pc = "computed",
                                          !.groupedData = result.groupedData,
                                          !.monthColumns = result.monthColumns,
                                          !.grandTotals = result.grandTotals]
    /\ UNCHANGED <<days, rates, tab, flow, card, generated, form, home, cloud>>

NextRollup == ComputeRollup

SpecRollup == InitRollup /\ [][NextRollup]_vars

\* the sum of one column over a list of rows
RECURSIVE SumColumn(_, _)
SumColumn(rows, id) ==
    IF rows = <<>> THEN RInt(0)
    ELSE RAdd(Head(rows).billingData[id], SumColumn(Tail(rows), id))

\* the rows of all managers, one after the other
RECURSIVE RowsOf(_)
RowsOf(managers) ==
    IF managers = {} THEN <<>>
    ELSE LET manager == CHOOSE m \in managers : TRUE
         IN  analytics.groupedData[manager].sowsWithBilling \o RowsOf(managers \ {manager})

ColumnIds == {analytics.monthColumns[i].id : i \in DOMAIN analytics.monthColumns}

\* the column is a month with no day inside the contract's span
NoOverlap(sow, id) ==
    /\ id.quarter = 0
    /\ \A date \in sow.startDate .. sow.endDate :
          getFullYear(date) # id.year \/ getMonth(date) + 1 # id.month

\* C22: in every column a manager's total is the sum of the values of the
\* contracts whose clientManager is that manager, and of no other contract;
\* the grand total is the sum over all contracts; a contract's value is 0 in
\* every month its span does not overlap.
C22_TotalsAreColumnSums ==
    analytics.pc = "computed" =>
        LET data == analytics.groupedData
            sows == analytics.sows
        IN  /\ DOMAIN data = {sows[i].clientManager : i \in DOMAIN sows}
            /\ \A manager \in DOMAIN data :
                  LET rows == data[manager].sowsWithBilling
                  IN  /\ Len(rows) = Cardinality({i \in DOMAIN sows :
                                                    sows[i].clientManager = manager})
                      /\ \A i \in DOMAIN rows :
                            /\ rows[i].sow.clientManager = manager
                            /\ \E j \in DOMAIN sows : sows[j] = rows[i].sow
                            /\ \A id \in ColumnIds :
                                  NoOverlap(rows[i].sow, id) => rows[i].billingData[id].n = 0
                      /\ \A id \in ColumnIds :
                            REq(data[manager].managerTotals[id], SumColumn(rows, id))
            /\ Len(RowsOf(DOMAIN data)) = Len(sows)
            /\ \A id \in ColumnIds :
                  REq(analytics.grandTotals[id], SumColumn(RowsOf(DOMAIN data), id))

\* both managers have a contract billed in January 2024, and the table has a
\* month one of the contracts does not reach
C22_Witness ==
    /\ analytics.pc = "computed"
    /\ DOMAIN analytics.groupedData = {"Alice Johnson", "Bob Williams"}
    /\ LET january == [year |-> 2024, month |-> 1, quarter |-> 0]
       IN  /\ january \in ColumnIds
           /\ \A manager \in DOMAIN analytics.groupedData :
                 analytics.groupedData[manager].managerTotals[january].n > 0
           /\ \E i \in DOMAIN analytics.sows, id \in ColumnIds :
                 NoOverlap(analytics.sows[i], id)
           /\ RLess(analytics.groupedData["Alice Johnson"].managerTotals[january],
                    analytics.grandTotals[january])

\* the sum of a row over the month columns of one quarter
RECURSIVE SumQuarter(_, _, _)
SumQuarter(billingData, columns, id) ==
    IF columns = <<>> THEN RInt(0)
    ELSE LET c == Head(columns).id
             rest == SumQuarter(billingData, Tail(columns), id)
         IN  IF c.quarter = 0 /\ c.year = id.year /\ (c.month - 1) \div 3 + 1 = id.quarter
             THEN RAdd(billingData[c], rest)
             ELSE rest

\* C23: a quarter column follows each March, June, September and December
\* column, and nowhere else; in every row its value is the sum of the row's
\* values in the month columns of that quarter, so no month is counted in
\* two quarter columns.
C23_QuarterColumns ==
    analytics.pc = "computed" =>
        LET columns == analytics.monthColumns
        IN  /\ \A j \in DOMAIN columns :
                  IF columns[j].isQuarterly
                  THEN /\ j > 1
                       /\ ~columns[j - 1].isQuarterly
                       /\ columns[j - 1].id.month \in {3, 6, 9, 12}
                       /\ columns[j].id = [year |-> columns[j - 1].id.year, month |-> 0,
                                           quarter |-> columns[j - 1].id.month \div 3]
                  ELSE columns[j].id.month \in {3, 6, 9, 12} =>
                           j < Len(columns) /\ columns[j + 1].isQuarterly
            /\ \A manager \in DOMAIN analytics.groupedData :
                  LET rows == analytics.groupedData[manager].sowsWithBilling
                  IN  \A i \in DOMAIN rows, j \in DOMAIN columns :
                          columns[j].isQuarterly =>
                              REq(rows[i].billingData[columns[j].id],
                                  SumQuarter(rows[i].billingData, columns, columns[j].id))

\* the table has the columns Q4 2023 and Q1 2024, and a row with amounts in
\* both, the second from two months only
C23_Witness ==
    /\ analytics.pc = "computed"
    /\ \E manager \in DOMAIN analytics.groupedData :
          \E i \in DOMAIN analytics.groupedData[manager].sowsWithBilling :
              LET row == analytics.groupedData[manager].sowsWithBilling[i]
                  q4 == [year |-> 2023, month |-> 0, quarter |-> 4]
                  q1 == [year |-> 2024, month |-> 0, quarter |-> 1]
              IN  /\ {q4, q1} \subseteq ColumnIds
                  /\ row.billingData[q4].n > 0
                  /\ row.billingData[q1].n > 0
                  /\ row.billingData[[year |-> 2024, month |-> 3, quarter |-> 0]].n = 0

(***************************************************************************)
(* SpecForm: the contract dialog opened for a new contract, with its       *)
(* details form: field edits, Add Rate and remove, document upload with    *)
(* the awaited extraction, dismissal and submit.  Of the four text fields, *)
(* all validated alike, projectName stands for all; text is a sequence of  *)
(* characters.  An absent date is the empty sequence.                      *)
(***************************************************************************)
\* new Date().getFullYear()
CurrentYear == 2024

\* the days the calendar pickers are clicked on
FormDates == {NewDate(2024, 0, 10), NewDate(2024, 5, 30)}

\* what is typed into the year and rate fields of a rate row
FormYears == {1999, CurrentYear, CurrentYear + 1}

FormRateValues == {0, 100}

\* what is typed into the project name field
FormNames == {<<>>, <<"P", "x">>}

\* form.reset for a new contract
defaultValues ==
    [projectName |-> <<>>, startDate |-> <<>>, endDate |-> <<>>, numberOfResources |-> 1,
     billingRates |-> <<[year |-> CurrentYear, ratePerResource |-> 0]>>]

\* billingRateSchema
billingRateValid(rate) == rate.year >= 2000 /\ rate.ratePerResource >= 0

\* formSchema, through zodResolver
formValid(values) ==
    /\ Len(values.projectName) >= 2
    /\ values.startDate # <<>>
    /\ values.endDate # <<>>
    /\ values.numberOfResources >= 1
    /\ Len(values.billingRates) >= 1
    /\ \A i \in DOMAIN values.billingRates : billingRateValid(values.billingRates[i])

\* what the extraction can hand back: a well-formed contract, and one whose
\* dates are inverted and whose rates repeat a year
ExtractionOutputs ==
    { [projectName |-> <<"P", "x">>, sowStartDate |-> NewDate(2024, 0, 10),
       sowEndDate |-> NewDate(2024, 5, 30), numberOfResources |-> 1,
       billingRates |-> <<[year |-> CurrentYear, ratePerResource |-> 100]>>],
      [projectName |-> <<"P", "x">>, sowStartDate |-> NewDate(2024, 5, 30),
       sowEndDate |-> NewDate(2024, 0, 10), numberOfResources |-> 1,
       billingRates |-> <<[year |-> CurrentYear, ratePerResource |-> 100],
                          [year |-> CurrentYear, ratePerResource |-> 0]>>] }

\* the outcomes of the awaited handleSowExtraction: it rejects (the flow threw,
\* or had no output and threw), or it resolves with an output
ExtractionOutcomes == {<<>>} \cup {<<output>> : output \in ExtractionOutputs}

\* the dialog just opened by Add New SOW; valuesBeforeSettle holds the form
\* values as they were when the awaited extraction settled, while that is the
\* last event
InitForm ==
    /\ form = [isOpen |-> TRUE, isExtracting |-> FALSE, extraction |-> "none",
               values |-> defaultValues, saved |-> <<>>, extractionCalls |-> 0,
               toast |-> "",
               valuesBeforeSettle |-> defaultValues, lastEvent |-> "handleAddNew"]
    /\ days = IdleDays
    /\ rates = IdleRates
    /\ tab = IdleTab
    /\ flow = IdleFlow
    /\ card = IdleCard
    /\ generated = IdleGenerated
    /\ analytics = IdleAnalytics
    /\ home = IdleHome
    /\ cloud = IdleCloud

FormUnchanged == UNCHANGED <<days, rates, tab, flow, card, generated, analytics, home, cloud>>

\* Add New SOW on the dashboard: the dialog opens on a reset form; opening
\* resets isExtracting
handleAddNew ==
    /\ ~form.isOpen
    /\ form' = [form EXCEPT !.isOpen = TRUE, !.isExtracting = FALSE,
                            !.values = defaultValues, !.saved = <<>>,
                            !.extractionCalls = 0,
                            !.valuesBeforeSettle = defaultValues, !.lastEvent = "handleAddNew"]
    /\ FormUnchanged

\* a field edit: field.onChange
setValue(field, value) ==
    /\ form.isOpen
    /\ form' = [form EXCEPT !.values[field] = value, !.valuesBeforeSettle = defaultValues, !.lastEvent = "edit"]
    /\ FormUnchanged

\* an edit of one rate row
setRate(index, rate) ==
    /\ form.isOpen
    /\ index \in DOMAIN form.values.billingRates
    /\ form' = [form EXCEPT !.values.billingRates[index] = rate, !.valuesBeforeSettle = defaultValues, !.lastEvent = "edit"]
    /\ FormUnchanged

\* Add Rate: append({ year: new Date().getFullYear() + 1, ratePerResource: 0 })
appendRate ==
    /\ form.isOpen
    /\ Len(form.values.billingRates) < MaxRates
    /\ form' = [form EXCEPT
            !.values.billingRates = Append(@, [year |-> CurrentYear + 1, ratePerResource |-> 0]),
            !.valuesBeforeSettle = defaultValues, !.lastEvent = "edit"]
    /\ FormUnchanged

\* remove(index)
removeRate(index) ==
    /\ form.isOpen
    /\ index \in DOMAIN form.values.billingRates
    /\ form' = [form EXCEPT
            !.values.billingRates = SubSeq(@, 1, index - 1) \o SubSeq(@, index + 1, Len(@)),
            !.valuesBeforeSettle = defaultValues, !.lastEvent = "edit"]
    /\ FormUnchanged

\* the files the hidden file input can hand to handleFileChange
FormFiles == {"none", "tooLarge", "document"}

\* handleFileChange up to its first await; the upload button is disabled
\* while an extraction runs
handleFileChange(file) ==
    /\ form.isOpen
    /\ ~form.isExtracting
    /\ form' = IF file = "none" THEN [form EXCEPT !.valuesBeforeSettle = defaultValues, !.lastEvent = "noFile"]
               ELSE IF file = "tooLarge"
               THEN [form EXCEPT !.toast = "File Too Large", !.valuesBeforeSettle = defaultValues, !.lastEvent = "fileTooLarge"]
               ELSE [form EXCEPT !.isExtracting = TRUE, !.extraction = "pending",
                                 !.extractionCalls = 1,
                                 !.valuesBeforeSettle = defaultValues, !.lastEvent = "extractionStarted"]
    /\ FormUnchanged

\* the values form.reset receives from an extraction output
extractedValues(aiResult) ==
    [projectName |-> aiResult.projectName, startDate |-> <<aiResult.sowStartDate>>,
     endDate |-> <<aiResult.sowEndDate>>, numberOfResources |-> aiResult.numberOfResources,
     billingRates |-> aiResult.billingRates]

\* the catch block, were it to reset the form as well
valuesAfterFailureReset(values) == defaultValues

\* the catch block: a toast, the form untouched
valuesAfterFailure(values) == values

\* the rest of handleFileChange once the awaited call settles
extractionSettles(outcome) ==
    /\ form.extraction = "pending"
    /\ form' = [form EXCEPT
            !.values = IF outcome = <<>> THEN valuesAfterFailure(@)
                       ELSE extractedValues(outcome[1]),
            !.valuesBeforeSettle = form.values,
            !.isExtracting = FALSE,
            !.extraction = "none",
            !.toast = IF outcome = <<>> THEN "Extraction Failed" ELSE "SOW Details Extracted",
            !.lastEvent = IF outcome = <<>> THEN "extractionFailed" ELSE "extracted"]
    /\ FormUnchanged

\* handleOpenChange, were it unguarded
isOpenAfterRequestUnguarded(open) == open

\* handleOpenChange: a request to open or close is dropped while extracting
isOpenAfterRequest(open) == IF ~form.isExtracting THEN open ELSE form.isOpen

\* the dialog's onOpenChange: outside click, Escape, the close button
handleOpenChange(open) ==
    /\ form.isOpen
    /\ form' = [form EXCEPT !.isOpen = isOpenAfterRequest(open),
                            !.values = IF isOpenAfterRequest(open) THEN @ ELSE defaultValues,
                            !.valuesBeforeSettle = defaultValues, !.lastEvent = "openChange"]
    /\ FormUnchanged

\* onSubmit: the contract handed to onSave
sowToSave(values) ==
    [projectName |-> values.projectName, startDate |-> values.startDate[1],
     endDate |-> values.endDate[1], numberOfResources |-> values.numberOfResources,
     billingRates |-> values.billingRates]

\* the submit button, were it enabled during an extraction
submitEnabledAlways == TRUE

\* <Button type="submit" disabled={isExtracting}>
submitEnabled == ~form.isExtracting

\* form.handleSubmit(onSubmit): validation, then onSubmit, handleSaveDetails
\* and handleSaveAndClose; an invalid form shows its errors and stays
submit ==
    /\ form.isOpen
    /\ submitEnabled
    /\ form' = IF formValid(form.values)
               THEN [form EXCEPT !.saved = <<sowToSave(form.values)>>,
                                 !.isOpen = FALSE,
                                 !.values = defaultValues,
                                 !.valuesBeforeSettle = defaultValues, !.lastEvent = "saved"]
               ELSE [form EXCEPT !.valuesBeforeSettle = defaultValues, !.lastEvent = "invalid"]
    /\ FormUnchanged

NextForm ==
    \/ handleAddNew
    \/ \E name \in FormNames : setValue("projectName", name)
    \/ \E date \in FormDates : setValue("startDate", <<date>>)
    \/ \E date \in FormDates : setValue("endDate", <<date>>)
    \/ \E index \in 1 .. MaxRates, year \in FormYears, value \in FormRateValues :
            setRate(index, [year |-> year, ratePerResource |-> value])
    \/ appendRate
    \/ \E index \in 1 .. MaxRates : removeRate(index)
    \/ \E file \in FormFiles : handleFileChange(file)
    \/ \E outcome \in ExtractionOutcomes : extractionSettles(outcome)
    \/ \E open \in BOOLEAN : handleOpenChange(open)
    \/ submit

SpecForm == InitForm /\ [][NextForm]_vars

\* C24: a saved contract never ends before it starts
C24_SavedStartNotAfterEnd ==
    \A i \in DOMAIN form.saved : form.saved[i].startDate <= form.saved[i].endDate

\* C25: the rates of a saved contract have no two entries for the same year
C25_SavedYearsDistinct ==
    \A i \in DOMAIN form.saved :
        \A j, k \in DOMAIN form.saved[i].billingRates :
            j # k => form.saved[i].billingRates[j].year # form.saved[i].billingRates[k].year

\* C26: after a failed extraction the failure is shown, handleSowExtraction
\* was called once, every form value is what it was before the failure, and
\* isExtracting is false
C26_FailedExtractionLeavesForm ==
    form.lastEvent = "extractionFailed" =>
        /\ form.toast = "Extraction Failed"
        /\ form.values = form.valuesBeforeSettle
        /\ form.extractionCalls = 1
        /\ form.extraction = "none"
        /\ ~form.isExtracting
        /\ form.isOpen

C26_Witness ==
    /\ form.lastEvent = "extractionFailed"
    /\ form.values # defaultValues

\* C30: a step taken while an extraction is in flight neither closes the
\* dialog nor saves a contract, and isExtracting stays set until it settles
C30_NoCloseNoSaveWhileExtracting ==
    [][form.extraction = "pending" =>
          /\ form.isExtracting
          /\ form'.isOpen = form.isOpen
          /\ form'.saved = form.saved]_vars

C30_Witness ==
    /\ form.extraction = "pending"
    /\ form.lastEvent = "openChange"
    /\ form.isOpen

(***************************************************************************)
(* SpecLeaves: the billing tab on a short contract, with the resource      *)
(* count field taking any number typed into it: the input has no minimum.  *)
(***************************************************************************)
\* a count below zero typed into the Actual No. of Resources field
NegativeCounts == {-1}

InitLeaves == InitBilling /\ tab.sow \in ConversionSows

NextLeaves ==
    \/ NextBilling
    \/ \E monthId \in AllMonthIds, newSize \in NegativeCounts :
          handleResourceCountChange(monthId, newSize)

SpecLeaves == InitLeaves /\ [][NextLeaves]_vars

\* C27: whatever the edits, each period's resourceLeaves has exactly
\* actualNumberOfResources entries
C27_LeavesSizedToResourceCount ==
    tab.pc = "mounted" =>
        \A month \in Months : Len(month.resourceLeaves) = month.actualNumberOfResources

(***************************************************************************)
(* SpecHome: the in-memory Home page with its dashboard.  A contract is    *)
(* its id, start date and client manager.  Each handler is taken with the  *)
(* render that follows it: with the manager filter on 'all' the dashboard  *)
(* sorts the very array Home holds in its state.                           *)
(***************************************************************************)
\* initialSows, in the order of the module
initialSows ==
    << [id |-> "sow-1", startDate |-> NewDate(CurrentYear, 0, 1),
        clientManager |-> "Alice Johnson"],
       [id |-> "sow-2", startDate |-> NewDate(CurrentYear - 1, 10, 15),
        clientManager |-> "Bob Williams"],
       [id |-> "sow-3", startDate |-> NewDate(CurrentYear - 2, 6, 1),
        clientManager |-> "Alice Johnson"] >>

\* the ids a saved contract can carry: those of the cards, and a fresh uuid
HomeSowIds == {"sow-1", "sow-2", "sow-3", "uuid-1"}

\* the start dates of the contracts handed to onSave: before and after
\* every initial one
HomeStartDates == {NewDate(CurrentYear - 3, 5, 1), NewDate(CurrentYear, 5, 1)}

\* the client manager stays the one of the card; the new contract is Bob's
HomeManagerOf(id) == IF id \in {"sow-1", "sow-3"} THEN "Alice Johnson" ELSE "Bob Williams"

HomeSows ==
    {[id |-> id, startDate |-> startDate, clientManager |-> HomeManagerOf(id)] :
        id \in HomeSowIds, startDate \in HomeStartDates}

RECURSIVE InsertByStartDate(_, _)
InsertByStartDate(sorted, sow) ==
    IF sorted = <<>> THEN <<sow>>
    ELSE IF Head(sorted).startDate <= sow.startDate
         THEN <<Head(sorted)>> \o InsertByStartDate(Tail(sorted), sow)
         ELSE <<sow>> \o sorted

\* sort((a, b) => parseISO(a.startDate).getTime() - parseISO(b.startDate).getTime()),
\* stable
RECURSIVE sortByStartDate(_, _)
sortByStartDate(sorted, rest) ==
    IF rest = <<>> THEN sorted
    ELSE sortByStartDate(InsertByStartDate(sorted, Head(rest)), Tail(rest))

\* the filteredSows memo, as it leaves the array of the Home state: sorted in
\* place under 'all', untouched when a manager is selected (filter copies)
rendered(sows, selectedManager) ==
    IF selectedManager = "all" THEN sortByStartDate(<<>>, sows) ELSE sows

\* a plausible slip: the contract is appended whether or not its id is there
savedListAlwaysAppended(prevSows, sow) == Append(prevSows, sow)

\* the updater of handleSaveSow
savedList(prevSows, sow) ==
    LET exists == \E i \in DOMAIN prevSows : prevSows[i].id = sow.id
    IN  IF exists
        THEN [i \in DOMAIN prevSows |-> IF prevSows[i].id = sow.id THEN sow ELSE prevSows[i]]
        ELSE prevSows \o <<sow>>

\* the updater of handleDeleteSow
RECURSIVE filteredList(_, _)
filteredList(prevSows, sowId) ==
    IF prevSows = <<>> THEN <<>>
    ELSE IF Head(prevSows).id # sowId
         THEN <<Head(prevSows)>> \o filteredList(Tail(prevSows), sowId)
         ELSE filteredList(Tail(prevSows), sowId)

\* Home after its first render
InitHome ==
    /\ home = [sows |-> rendered(initialSows, "all"), selectedManager |-> "all",
               prevSows |-> initialSows, returned |-> initialSows,
               lastCall |-> [op |-> "mount", id |-> ""]]
    /\ days = IdleDays
    /\ rates = IdleRates
    /\ tab = IdleTab
    /\ flow = IdleFlow
    /\ card = IdleCard
    /\ generated = IdleGenerated
    /\ analytics = IdleAnalytics
    /\ form = IdleForm
    /\ cloud = IdleCloud

HomeUnchanged == UNCHANGED <<days, rates, tab, flow, card, generated, analytics, form, cloud>>

\* handleSaveSow and the render after it; prevSows and returned keep what
\* the updater was given and what it returned
handleSaveSow(sow) ==
    /\ home' = [home EXCEPT
            !.sows = rendered(savedList(home.sows, sow), home.selectedManager),
            !.prevSows = home.sows,
            !.returned = savedList(home.sows, sow),
            !.lastCall = [op |-> "save", id |-> sow.id]]
    /\ HomeUnchanged

\* handleDeleteSow and the render after it
handleDeleteSow(sowId) ==
    /\ home' = [home EXCEPT
            !.sows = rendered(filteredList(home.sows, sowId), home.selectedManager),
            !.prevSows = home.sows,
            !.returned = filteredList(home.sows, sowId),
            !.lastCall = [op |-> "delete", id |-> sowId]]
    /\ HomeUnchanged

\* the manager filter of the dashboard: the memo runs again
setSelectedManager(manager) ==
    /\ manager # home.selectedManager
    /\ home' = [home EXCEPT
            !.sows = rendered(home.sows, manager),
            !.selectedManager = manager,
            !.prevSows = home.sows,
            !.returned = home.sows,
            !.lastCall = [op |-> "select", id |-> ""]]
    /\ HomeUnchanged

NextHome ==
    \/ \E sow \in HomeSows : handleSaveSow(sow)
    \/ \E sowId \in HomeSowIds : handleDeleteSow(sowId)
    \/ \E manager \in {"all", "Alice Johnson"} : setSelectedManager(manager)

SpecHome == InitHome /\ [][NextHome]_vars

\* the ids of a list, and the positions of an id in it
IdsOf(sows) == {sows[i].id : i \in DOMAIN sows}

PositionsOf(sows, id) == {i \in DOMAIN sows : sows[i].id = id}

\* the entries of a list other than the one of an id, in their order
RECURSIVE OthersOf(_, _)
OthersOf(sows, id) ==
    IF sows = <<>> THEN <<>>
    ELSE (IF Head(sows).id = id THEN <<>> ELSE <<Head(sows)>>) \o OthersOf(Tail(sows), id)

\* C28: no two contracts of the list share an id; a save of a present id
\* returns the list with that one entry replaced where it stood, a save of a
\* new id returns the list with the contract added at the end, a delete
\* returns the list without the entry of that id, or the same list when the
\* id is absent; the render keeps the entries
C28_IdsUniqueUnderSaveAndDelete ==
    /\ \A i, j \in DOMAIN home.sows : home.sows[i].id = home.sows[j].id => i = j
    /\ Len(home.sows) = Len(home.returned)
    /\ {home.sows[i] : i \in DOMAIN home.sows} = {home.returned[i] : i \in DOMAIN home.returned}
    /\ (home.lastCall.op = "save" /\ home.lastCall.id \in IdsOf(home.prevSows)) =>
          /\ Len(home.returned) = Len(home.prevSows)
          /\ PositionsOf(home.returned, home.lastCall.id) =
                 PositionsOf(home.prevSows, home.lastCall.id)
          /\ \A i \in DOMAIN home.prevSows :
                 home.prevSows[i].id # home.lastCall.id => home.returned[i] = home.prevSows[i]
    /\ (home.lastCall.op = "save" /\ home.lastCall.id \notin IdsOf(home.prevSows)) =>
          /\ Len(home.returned) = Len(home.prevSows) + 1
          /\ SubSeq(home.returned, 1, Len(home.prevSows)) = home.prevSows
          /\ home.returned[Len(home.returned)].id = home.lastCall.id
    /\ home.lastCall.op = "delete" =>
          /\ home.lastCall.id \notin IdsOf(home.returned)
          /\ home.returned = OthersOf(home.prevSows, home.lastCall.id)
          /\ home.lastCall.id \notin IdsOf(home.prevSows) => home.returned = home.prevSows
          /\ home.lastCall.id \in IdsOf(home.prevSows) =>
                 Len(home.returned) = Len(home.prevSows) - 1

\* a present id saved with another start date among four contracts, and the
\* list re-sorted by the render
C28_Witness ==
    /\ home.lastCall.op = "save"
    /\ home.lastCall.id \in IdsOf(home.prevSows)
    /\ Len(home.sows) = 4
    /\ home.sows # home.returned

(***************************************************************************)
(* SpecCloud: the Firestore-backed Home page.  The collection is the set   *)
(* of ids it holds; a snapshot is the collection as it stood after a       *)
(* write; snapshots are delivered to the subscriber in order.  deleted     *)
(* holds the ids the user deleted and has not saved since.                 *)
(***************************************************************************)
\* the snapshots that can wait for delivery at one time
MaxPendingSnapshots == 2

InitialSowIds == {initialSows[i].id : i \in DOMAIN initialSows}

\* the ids of the documents: the initial contracts and one the user adds
CloudSowIds == InitialSowIds \cup {"uuid-1"}

\* the page mounts on an empty collection; the first snapshot is on its way
InitCloud ==
    /\ cloud = [store |-> {}, snapshots |-> <<{}>>, sows |-> {}, loading |-> TRUE,
                deleted |-> {}, lastEvent |-> "subscribeSows"]
    /\ days = IdleDays
    /\ rates = IdleRates
    /\ tab = IdleTab
    /\ flow = IdleFlow
    /\ card = IdleCard
    /\ generated = IdleGenerated
    /\ analytics = IdleAnalytics
    /\ form = IdleForm
    /\ home = IdleHome

CloudUnchanged == UNCHANGED <<days, rates, tab, flow, card, generated, analytics, form, home>>

\* the collection after the callback of subscribeSows has run on a snapshot:
\* an empty snapshot has every initial contract saved
storeAfterSnapshot(store, firestoreSows) ==
    IF firestoreSows = {} THEN store \cup InitialSowIds ELSE store

\* the callback given to subscribeSows, on the oldest waiting snapshot; the
\* writes of the seeding are followed by one snapshot of their result
deliverSnapshot ==
    /\ cloud.snapshots # <<>>
    /\ LET firestoreSows == Head(cloud.snapshots)
           seeded == storeAfterSnapshot(cloud.store, firestoreSows)
       IN  cloud' = [cloud EXCEPT
               !.sows = firestoreSows,
               !.loading = FALSE,
               !.store = seeded,
               !.snapshots = IF firestoreSows = {}
                             THEN Tail(cloud.snapshots) \o <<seeded>>
                             ELSE Tail(cloud.snapshots),
               !.lastEvent = IF firestoreSows = {} THEN "seeded" ELSE "snapshot"]
    /\ CloudUnchanged

\* handleSaveSow: setDoc on the document of the id; an edit saves a shown
\* contract, the dialog for a new one saves a fresh id
cloudSaveSow(sowId) ==
    /\ ~cloud.loading
    /\ sowId \in cloud.sows \/ sowId \notin InitialSowIds
    /\ Len(cloud.snapshots) < MaxPendingSnapshots
    /\ cloud' = [cloud EXCEPT
            !.store = @ \cup {sowId},
            !.snapshots = Append(@, cloud.store \cup {sowId}),
            !.deleted = @ \ {sowId},
            !.lastEvent = "saveSow"]
    /\ CloudUnchanged

\* handleDeleteSow, from the card of a shown contract: deleteDoc
cloudDeleteSow(sowId) ==
    /\ ~cloud.loading
    /\ sowId \in cloud.sows
    /\ Len(cloud.snapshots) < MaxPendingSnapshots
    /\ cloud' = [cloud EXCEPT
            !.store = @ \ {sowId},
            !.snapshots = Append(@, cloud.store \ {sowId}),
            !.deleted = @ \cup {sowId},
            !.lastEvent = "deleteSow"]
    /\ CloudUnchanged

NextCloud ==
    \/ deliverSnapshot
    \/ \E sowId \in CloudSowIds : cloudSaveSow(sowId)
    \/ \E sowId \in CloudSowIds : cloudDeleteSow(sowId)

SpecCloud == InitCloud /\ [][NextCloud]_vars

\* C29: a contract the user deleted and has not saved since is not in the
\* collection, and once every snapshot is delivered it is not in the list
C29_DeletedNeverWrittenBack ==
    \A sowId \in cloud.deleted :
        /\ sowId \notin cloud.store
        /\ cloud.snapshots = <<>> => sowId \notin cloud.sows

=============================================================================
